---- MODULE Spec2Model ----
(***************************************************************************)
(* A model of terminalgl: the buffered front-end (Surface, src/src/lib.rs) *)
(* and the two immediate-mode front-ends (src/src/draw.rs, plain, and      *)
(* src/src/drawc.rs, colored).                                             *)
(*                                                                         *)
(* A Surface is (width, height, data), data being the Vec<Vec<char>> of    *)
(* rows.  Coordinates are 0-based in the code and sequences 1-based here,  *)
(* so cell (x, y) is data[y+1][x+1].  Every method is one action; the      *)
(* record `last` observes the call that has just returned: its arguments,  *)
(* the grid before it, its return value and the draw_pixel / draw_line     *)
(* calls it issued, in order.                                              *)
(***************************************************************************)
EXTENDS Integers, Sequences, FiniteSets, TLC

VARIABLES
    made,       \* the <<width, height>> Surface::new was called with
    width,      \* Surface.width
    height,     \* Surface.height
    data,       \* Surface.data, a sequence of rows of characters
    last,       \* the call that has just returned (op = "none": none pending)
    panicked,   \* TRUE once a call has aborted the program
    ndraw,      \* drawing calls made since the grid was last uniform (new, fill)
    term        \* what the last immediate-mode call sent to the terminal

vars == <<made, width, height, data, last, panicked, ndraw, term>>

----------------------------------------------------------------------------
(* Bounds of the model *)

\* |length| of a straight line is at most MaxLen.
MaxLen == 3
\* Width and height arguments of draw_rectangle range over 0..MaxRect.
MaxRect == 3
\* Ellipse radii a and b range over 0..MaxRad.
MaxRad == 2
\* A polygon has at most MaxPts points.
MaxPts == 3
\* A text has at most MaxText characters.
MaxText == 2
\* Terminal coordinates range over -1..MaxCoord.
MaxCoord == 4
\* At most MaxDraws drawing calls follow a new() or a fill().
MaxDraws == 1
\* The machine word is modelled with UsizeBits bits (64 on the usual targets).
UsizeBits == 16

\* The surface sizes Surface::new is called with, as <<width, height>>.
Sizes == {<<0, 0>>, <<1, 1>>, <<3, 1>>, <<2, 3>>}

SPACE == " "
\* The characters of the model: the blank, a background and an ink.
Chars == {SPACE, ".", "#"}
\* The character the composite primitives draw with.
Inks == {"#"}

Directions == {"Left", "Right", "Up", "Down"}

\* The coordinates of a call on a w-by-h surface: every column (row) of the
\* surface and the one next to it on either side.
Xs(w) == (0 - 1)..w
Ys(h) == (0 - 1)..h

Abs(n) == IF n < 0 THEN 0 - n ELSE n

\* The sequences over S of length lo..hi.
SeqsUpTo(S, lo, hi) == UNION {[1..n -> S] : n \in lo..hi}

----------------------------------------------------------------------------
(* The grid *)

\* vec![vec![c; width]; height]
Grid(w, h, c) == [i \in 1..h |-> [j \in 1..w |-> c]]

\* Surface::new
NewData(w, h) == Grid(w, h, SPACE)

\* A mutant of InRange: both upper bounds off by one.
InRangeInclusive(w, h, x, y) == x >= 0 /\ x <= w /\ y >= 0 /\ y <= h

\* The bounds test of draw_pixel.
InRange(w, h, x, y) == x >= 0 /\ x < w /\ y >= 0 /\ y < h

\* The effect of draw_pixel(x, y, c) on the grid d of a w-by-h surface.
PixelData(d, w, h, x, y, c) ==
    IF InRange(w, h, x, y) THEN [d EXCEPT ![y + 1][x + 1] = c] ELSE d

\* The grid after the draw_pixel calls ws[i..], each <<x, y, c>>, in order.
RECURSIVE PaintFrom(_, _, _, _, _)
PaintFrom(d, w, h, ws, i) ==
    IF i > Len(ws) THEN d
    ELSE PaintFrom(PixelData(d, w, h, ws[i][1], ws[i][2], ws[i][3]), w, h, ws, i + 1)

Paint(d, w, h, ws) == PaintFrom(d, w, h, ws, 1)

\* The observation of a call.
Call(op, args, ret, writes, lines) ==
    [op |-> op, args |-> args, before |-> data, ret |-> ret,
     writes |-> writes, lines |-> lines]

NoCall ==
    [op |-> "none", args |-> <<>>, before |-> <<>>, ret |-> FALSE,
     writes |-> <<>>, lines |-> <<>>]

\* A method may be called: the program runs and the caller is between calls.
Idle == ~panicked /\ last.op = "none"

CanDraw == Idle /\ ndraw < MaxDraws

\* A drawing call that returns normally, having issued the draw_pixel calls ws.
Drawn(op, args, ret, ws, lines) ==
    /\ data' = Paint(data, width, height, ws)
    /\ last' = Call(op, args, ret, ws, lines)
    /\ ndraw' = ndraw + 1
    /\ UNCHANGED <<made, width, height, panicked, term>>

----------------------------------------------------------------------------
(* Surface: fill, draw_pixel, draw_straight_line *)

\* A mutant of Fill: the grid rebuilt with width and height exchanged.
FillTransposed(c) ==
    /\ Idle
    /\ data' = Grid(height, width, c)
    /\ last' = Call("fill", <<c>>, FALSE, <<>>, <<>>)
    /\ ndraw' = 0
    /\ UNCHANGED <<made, width, height, panicked, term>>

Fill(c) ==
    /\ Idle
    /\ data' = Grid(width, height, c)
    /\ last' = Call("fill", <<c>>, FALSE, <<>>, <<>>)
    /\ ndraw' = 0
    /\ UNCHANGED <<made, width, height, panicked, term>>

DrawPixel(x, y, c) ==
    /\ CanDraw
    /\ LET placed == InRange(width, height, x, y)
       IN  /\ data' = PixelData(data, width, height, x, y, c)
           /\ last' = Call("draw_pixel", <<x, y, c>>, placed, <<>>, <<>>)
    /\ ndraw' = ndraw + 1
    /\ UNCHANGED <<made, width, height, panicked, term>>

\* The unit step of a direction: the match of straight_line.
AddX(dir) == CASE dir = "Left" -> 0 - 1 [] dir = "Right" -> 1 [] OTHER -> 0
AddY(dir) == CASE dir = "Up" -> 0 - 1 [] dir = "Down" -> 1 [] OTHER -> 0

\* A mutant of StraightLineCells: a negative length negated, the step not.
StraightLineNoFlip(x, y, length, dir) ==
    [i \in 1..Abs(length) |-> <<x + (i - 1) * AddX(dir), y + (i - 1) * AddY(dir)>>]

\* The coordinates straight_line passes to pixel, in order: a negative length
\* is negated together with the step, and the loop runs 0..length.
StraightLineCells(x, y, length, dir) ==
    LET neg == length < 0
        len == IF neg THEN 0 - length ELSE length
        addx == IF neg THEN 0 - AddX(dir) ELSE AddX(dir)
        addy == IF neg THEN 0 - AddY(dir) ELSE AddY(dir)
    IN  [i \in 1..len |-> <<x + (i - 1) * addx, y + (i - 1) * addy>>]

\* Cells to draw_pixel calls with the character c.
WithChar(cells, c) == [i \in 1..Len(cells) |-> <<cells[i][1], cells[i][2], c>>]

DrawStraightLine(x, y, length, dir, c) ==
    /\ CanDraw
    /\ Drawn("draw_straight_line", <<x, y, length, dir, c>>, FALSE,
             WithChar(StraightLineCells(x, y, length, dir), c), <<>>)

----------------------------------------------------------------------------
(* Surface: draw_rectangle *)

\* usize subtraction without overflow checks: a - b modulo 2^UsizeBits.
WrappingSub(a, b) == (a - b + 2 ^ UsizeBits) % (2 ^ UsizeBits)

\* The cast `as isize` of a usize: the same bits read as two's complement.
AsIsize(u) == IF u >= 2 ^ (UsizeBits - 1) THEN u - 2 ^ UsizeBits ELSE u

\* The two rows draw_rectangle draws first when fill is false.
RectangleRows(x, y, w, h) ==
    StraightLineCells(x, y, w, "Right") \o StraightLineCells(x, y + h - 1, w, "Right")

\* The two columns: the left one starts at y+1 with the usize height-2 cast to
\* isize, the right one starts at y with the isize height minus 2.
RectangleColumns(x, y, w, h) ==
    StraightLineCells(x, y + 1, AsIsize(WrappingSub(h, 2)), "Down")
        \o StraightLineCells(x + w - 1, y, h - 2, "Down")

\* The columns of a filled rectangle, i = from..w-1, each h cells down from y.
RECURSIVE FilledColumns(_, _, _, _, _)
FilledColumns(x, y, w, h, from) ==
    IF from >= w THEN <<>>
    ELSE StraightLineCells(x + from, y, h, "Down") \o FilledColumns(x, y, w, h, from + 1)

\* The coordinates draw_rectangle passes to draw_pixel when it runs to its end.
RectangleCells(x, y, w, h, fill) ==
    IF fill THEN FilledColumns(x, y, w, h, 0)
    ELSE RectangleRows(x, y, w, h) \o RectangleColumns(x, y, w, h)

\* height-2 on usize underflows: a panic when the build checks overflow.
RectangleUnderflows(h, fill) == ~fill /\ h < 2

\* checks: the build has overflow checks on (debug) or off (release).
DrawRectangle(x, y, w, h, c, fill, checks) ==
    /\ CanDraw
    /\ IF RectangleUnderflows(h, fill) /\ checks
       THEN /\ data' = Paint(data, width, height, WithChar(RectangleRows(x, y, w, h), c))
            /\ last' = Call("draw_rectangle", <<x, y, w, h, c, fill>>, FALSE,
                            WithChar(RectangleRows(x, y, w, h), c), <<>>)
            /\ panicked' = TRUE
            /\ ndraw' = ndraw + 1
            /\ UNCHANGED <<made, width, height, term>>
       ELSE Drawn("draw_rectangle", <<x, y, w, h, c, fill>>, FALSE,
                  WithChar(RectangleCells(x, y, w, h, fill), c), <<>>)

----------------------------------------------------------------------------
(* Surface: draw_line.  The f64 arithmetic is modelled by the real numbers *)
(* it approximates: with coordinates this small no intermediate value lies *)
(* within rounding error of a half-integer, so f64::round (half away from  *)
(* zero) gives the same cell; a quotient by an irrational or odd distance  *)
(* is never exactly a half.  Comparisons with sqrt(d2) are made on squares.*)

\* m * sqrt(d2) <= b, for integers m, b and d2 >= 0.
LeSqrt(m, d2, b) ==
    IF m <= 0 THEN b >= 0 \/ m * m * d2 >= b * b
    ELSE b >= 0 /\ m * m * d2 <= b * b

\* distance(..).round() as isize for squared distance d2: the n with
\* n - 1/2 <= sqrt(d2) < n + 1/2.
RoundSqrt(d2) ==
    IF d2 = 0 THEN 0
    ELSE CHOOSE n \in 1..d2 : n * (n - 1) < d2 /\ d2 <= n * (n + 1)

\* (a / sqrt(d2)).round() for d2 > 0: the k with k - 1/2 <= a/sqrt(d2) < k + 1/2.
RoundQuot(a, d2) ==
    CHOOSE k \in (0 - Abs(a))..Abs(a) :
        /\ LeSqrt(2 * k - 1, d2, 2 * a)
        /\ ~LeSqrt(2 * k + 1, d2, 2 * a)

\* The cells of the general path of draw_line: round(dist) steps from (x1, y1)
\* along the unit vector, each rounded to a cell.  For a duplicate point dist is
\* 0, the unit vector is NaN and the loop 0..0 does not run.
GeneralLineCells(x1, y1, x2, y2) ==
    LET d2 == (x2 - x1) * (x2 - x1) + (y2 - y1) * (y2 - y1)
    IN  [i \in 1..RoundSqrt(d2) |->
            <<x1 + RoundQuot((i - 1) * (x2 - x1), d2),
              y1 + RoundQuot((i - 1) * (y2 - y1), d2)>>]

\* A mutant of LineCells: the special cases take the absolute delta as length.
LineCellsAbs(x1, y1, x2, y2) ==
    (IF x1 = x2 THEN StraightLineCells(x1, y1, Abs(y2 - y1), "Down") ELSE <<>>)
        \o (IF y1 = y2 THEN StraightLineCells(x1, y1, Abs(x2 - x1), "Right") ELSE <<>>)
        \o GeneralLineCells(x1, y1, x2, y2)
        \o <<<<x2, y2>>>>

\* The coordinates draw_line passes to draw_pixel, in order.
LineCells(x1, y1, x2, y2) ==
    (IF x1 = x2 THEN StraightLineCells(x1, y1, y2 - y1, "Down") ELSE <<>>)
        \o (IF y1 = y2 THEN StraightLineCells(x1, y1, x2 - x1, "Right") ELSE <<>>)
        \o GeneralLineCells(x1, y1, x2, y2)
        \o <<<<x2, y2>>>>

DrawLine(x1, y1, x2, y2, c) ==
    /\ CanDraw
    /\ Drawn("draw_line", <<x1, y1, x2, y2, c>>, FALSE,
             WithChar(LineCells(x1, y1, x2, y2), c), <<>>)

----------------------------------------------------------------------------
(* Surface: draw_polygon *)

\* A mutant of PolygonLines: the closing line from the last point is left out.
PolygonLinesOpen(points) ==
    [i \in 1..(Len(points) - 1) |->
        <<points[i][1], points[i][2], points[i + 1][1], points[i + 1][2]>>]

\* The draw_line calls of draw_polygon, in order: points[i] to points[next],
\* next being i+1, or 0 after the last point.
PolygonLines(points) ==
    [i \in 1..Len(points) |->
        LET next == IF i + 1 > Len(points) THEN 1 ELSE i + 1
        IN  <<points[i][1], points[i][2], points[next][1], points[next][2]>>]

\* The draw_pixel calls of the draw_line calls ls[i..], in order.
RECURSIVE LinesCells(_, _)
LinesCells(ls, i) ==
    IF i > Len(ls) THEN <<>>
    ELSE LineCells(ls[i][1], ls[i][2], ls[i][3], ls[i][4]) \o LinesCells(ls, i + 1)

DrawPolygon(points, c) ==
    /\ CanDraw
    /\ Drawn("draw_polygon", <<points, c>>, FALSE,
             WithChar(LinesCells(PolygonLines(points), 1), c), PolygonLines(points))

----------------------------------------------------------------------------
(* Surface: draw_ellipse *)

\* ((b / a) * sqrt(inside)).round() for a > 0 and inside <= a*a: the m with
\* m - 1/2 <= b * sqrt(inside) / a < m + 1/2.
RoundScaledSqrt(b, a, inside) ==
    CHOOSE m \in 0..b :
        /\ m = 0 \/ (2 * m - 1) * (2 * m - 1) * a * a <= 4 * b * b * inside
        /\ 4 * b * b * inside < (2 * m + 1) * (2 * m + 1) * a * a

\* y.round() as isize in column x of the ellipse.  With a = 0 the quotient
\* b / a is infinite or NaN, y is NaN and the cast gives 0.
EllipseY(k, a, b, x) ==
    IF a = 0 THEN 0
    ELSE k + RoundScaledSqrt(b, a, Abs(a * a - (x - a) * (x - a)))

\* The coordinates draw_ellipse passes to draw_pixel in column x = 0..2a.
EllipseColumn(h, k, a, b, fill, x) ==
    LET shiftx == x + h - a
        yr == EllipseY(k, a, b, x)
    IN  IF fill
        THEN StraightLineCells(shiftx, yr, 2 * Abs(k - yr) + 1, "Up")
        ELSE <<<<shiftx, yr>>, <<shiftx, yr + 2 * (k - yr)>>>>

RECURSIVE EllipseCells(_, _, _, _, _, _)
EllipseCells(h, k, a, b, fill, x) ==
    IF x >= a * 2 + 1 THEN <<>>
    ELSE EllipseColumn(h, k, a, b, fill, x) \o EllipseCells(h, k, a, b, fill, x + 1)

DrawEllipse(h, k, a, b, c, fill) ==
    /\ CanDraw
    /\ Drawn("draw_ellipse", <<h, k, a, b, c, fill>>, FALSE,
             WithChar(EllipseCells(h, k, a, b, fill, 0), c), <<>>)

----------------------------------------------------------------------------
(* Surface: draw_text, blit *)

\* text.chars().enumerate(): character i (from 0) goes to (x + i, y).
TextWrites(x, y, text) == [i \in 1..Len(text) |-> <<x + (i - 1), y, text[i]>>]

DrawText(x, y, text) ==
    /\ CanDraw
    /\ Drawn("draw_text", <<x, y, text>>, FALSE, TextWrites(x, y, text), <<>>)

\* A mutant of BlitRow: the space is drawn like any other character.
BlitRowOpaque(x, y, row, i, j) ==
    [k \in 1..(Len(row) - j + 1) |-> <<x + (j + k - 2), y + (i - 1), row[j + k - 1]>>]

\* The draw_pixel calls of blit for row i (from 1) of other, columns j.. on.
RECURSIVE BlitRow(_, _, _, _, _)
BlitRow(x, y, row, i, j) ==
    IF j > Len(row) THEN <<>>
    ELSE (IF row[j] = SPACE THEN <<>> ELSE <<<<x + (j - 1), y + (i - 1), row[j]>>>>)
             \o BlitRow(x, y, row, i, j + 1)

\* The draw_pixel calls of blit, rows i.. on of other's data.
RECURSIVE BlitWrites(_, _, _, _)
BlitWrites(x, y, odata, i) ==
    IF i > Len(odata) THEN <<>>
    ELSE BlitRow(x, y, odata[i], i, 1) \o BlitWrites(x, y, odata, i + 1)

Blit(x, y, other) ==
    /\ CanDraw
    /\ Drawn("blit", <<x, y, other>>, FALSE, BlitWrites(x, y, other.data, 1), <<>>)

\* The caller takes the result of the call and goes on.
Return ==
    /\ ~panicked
    /\ last.op # "none"
    /\ last' = NoCall
    /\ UNCHANGED <<made, width, height, data, panicked, ndraw, term>>

----------------------------------------------------------------------------
(* The immediate-mode front-ends: draw::pixel, drawc::pixel and            *)
(* drawc::text_aligned.  `term` observes the call that has just returned:  *)
(* the terminal size it was answered, the pixel calls it issued and, in    *)
(* order, what it sent to the terminal.                                    *)

\* The escape character '\x1b'.
ESC == "ESC"
\* drawc::RED, "\x1b[31m", as its characters.
RED == <<ESC, "[", "3", "1", "m">>

\* A mutant of StartsWithEsc: any token that is not empty passes.
NonEmptyCode(ccode) == Len(ccode) > 0

\* ccode.starts_with('\x1b')
StartsWithEsc(ccode) == Len(ccode) > 0 /\ ccode[1] = ESC

\* super::cursorto(x, y): a cursor move to the 0-based cell (x, y), sent as the
\* 1-based row and column.
Cursorto(x, y) == [kind |-> "cursorto", row |-> y + 1, col |-> x + 1]

\* print!: the characters sent.
PrintOut(chars) == [kind |-> "print", text |-> chars]

\* A mutant of PlainPixelOut: column 0 and row 0 are refused too.
PlainPixelPositive(x, y, c) ==
    IF x > 0 /\ y > 0 THEN <<Cursorto(x, y), PrintOut(<<c>>)>> ELSE <<>>

\* What draw::pixel(x, y, c) sends.
PlainPixelOut(x, y, c) ==
    IF x >= 0 /\ y >= 0 THEN <<Cursorto(x, y), PrintOut(<<c>>)>> ELSE <<>>

\* What drawc::pixel(x, y, c, ccode) sends when super::size() answers tsize.
ColorPixelOut(x, y, c, ccode, tsize) ==
    IF x >= 0 /\ x < tsize[1] /\ y >= 0 /\ y < tsize[2] /\ StartsWithEsc(ccode)
    THEN <<Cursorto(x, y), PrintOut(ccode \o <<c>>)>>
    ELSE <<>>

\* The bytes of a character in UTF-8: str::len counts bytes.
Utf8Len(ch) == IF ch = "e-acute" THEN 2 ELSE 1

\* text.len()
RECURSIVE StrLen(_)
StrLen(text) == IF text = <<>> THEN 0 ELSE Utf8Len(Head(text)) + StrLen(Tail(text))

\* A mutant of AlignedX: the half of Center rounded up.
AlignedXCeil(x, text, align) ==
    CASE align = "Left" -> x
      [] align = "Center" -> x - ((StrLen(text) + 1) \div 2)
      [] align = "Right" -> x - StrLen(text)

\* The x text_aligned starts at: isize division truncates, and len is not negative.
AlignedX(x, text, align) ==
    CASE align = "Left" -> x
      [] align = "Center" -> x - (StrLen(text) \div 2)
      [] align = "Right" -> x - StrLen(text)

\* The pixel calls of text_aligned, in order.
TextAlignedCalls(x, y, text, align, ccode) ==
    [i \in 1..Len(text) |-> <<AlignedX(x, text, align) + (i - 1), y, text[i], ccode>>]

\* What the pixel calls cs[i..] send.
RECURSIVE ColorCallsOut(_, _, _)
ColorCallsOut(cs, tsize, i) ==
    IF i > Len(cs) THEN <<>>
    ELSE ColorPixelOut(cs[i][1], cs[i][2], cs[i][3], cs[i][4], tsize)
             \o ColorCallsOut(cs, tsize, i + 1)

\* The coordinates draw::straight_line passes to pixel, in order.
PlainStraightLineCells(x, y, length, dir) ==
    LET addx == CASE dir = "Left" -> 0 - 1 [] dir = "Right" -> 1 [] OTHER -> 0
        addy == CASE dir = "Up" -> 0 - 1 [] dir = "Down" -> 1 [] OTHER -> 0
        neg == length < 0
        len == IF neg THEN 0 - length ELSE length
        sx == IF neg THEN 0 - addx ELSE addx
        sy == IF neg THEN 0 - addy ELSE addy
    IN  [i \in 1..len |-> <<x + (i - 1) * sx, y + (i - 1) * sy>>]

\* The columns of a filled draw::rectangle from column `from` on.
RECURSIVE PlainFilledColumns(_, _, _, _, _)
PlainFilledColumns(x, y, w, h, from) ==
    IF from >= w THEN <<>>
    ELSE PlainStraightLineCells(x + from, y, h, "Down")
             \o PlainFilledColumns(x, y, w, h, from + 1)

\* The coordinates draw::rectangle passes to pixel, in order: w and h are
\* isize, so h-2 is negative for h < 2 and the columns start at y+1.
PlainRectangleCells(x, y, w, h, fill) ==
    IF fill THEN PlainFilledColumns(x, y, w, h, 0)
    ELSE PlainStraightLineCells(x, y, w, "Right")
             \o PlainStraightLineCells(x, y + h - 1, w, "Right")
             \o PlainStraightLineCells(x, y + 1, h - 2, "Down")
             \o PlainStraightLineCells(x + w - 1, y + 1, h - 2, "Down")

\* The coordinates drawc::straight_line passes to pixel, in order.
ColorStraightLineCells(x, y, length, dir) ==
    LET addx == CASE dir = "Left" -> 0 - 1 [] dir = "Right" -> 1 [] OTHER -> 0
        addy == CASE dir = "Up" -> 0 - 1 [] dir = "Down" -> 1 [] OTHER -> 0
        neg == length < 0
        len == IF neg THEN 0 - length ELSE length
        sx == IF neg THEN 0 - addx ELSE addx
        sy == IF neg THEN 0 - addy ELSE addy
    IN  [i \in 1..len |-> <<x + (i - 1) * sx, y + (i - 1) * sy>>]

\* The columns of a filled drawc::rectangle from column `from` on.
RECURSIVE ColorFilledColumns(_, _, _, _, _)
ColorFilledColumns(x, y, w, h, from) ==
    IF from >= w THEN <<>>
    ELSE ColorStraightLineCells(x + from, y, h, "Down")
             \o ColorFilledColumns(x, y, w, h, from + 1)

\* The coordinates drawc::rectangle passes to pixel, in order.
ColorRectangleCells(x, y, w, h, fill) ==
    IF fill THEN ColorFilledColumns(x, y, w, h, 0)
    ELSE ColorStraightLineCells(x, y, w, "Right")
             \o ColorStraightLineCells(x, y + h - 1, w, "Right")
             \o ColorStraightLineCells(x, y + 1, h - 2, "Down")
             \o ColorStraightLineCells(x + w - 1, y + 1, h - 2, "Down")

\* Cells to drawc::pixel calls with the character c and the style token ccode.
WithCode(cells, c, ccode) ==
    [i \in 1..Len(cells) |-> <<cells[i][1], cells[i][2], c, ccode>>]

\* What the draw::pixel calls cs[i..] send.
RECURSIVE PlainCallsOut(_, _)
PlainCallsOut(cs, i) ==
    IF i > Len(cs) THEN <<>>
    ELSE PlainPixelOut(cs[i][1], cs[i][2], cs[i][3]) \o PlainCallsOut(cs, i + 1)

NoTerm == [op |-> "none", args |-> <<>>, tsize |-> <<0, 0>>, calls |-> <<>>, out |-> <<>>]

TermIdle == term.op = "none"

TermCall(op, args, tsize, calls, out) ==
    /\ term' = [op |-> op, args |-> args, tsize |-> tsize, calls |-> calls, out |-> out]
    /\ UNCHANGED <<made, width, height, data, last, panicked, ndraw>>

PlainPixel(x, y, c) ==
    /\ TermIdle
    /\ TermCall("draw_pixel", <<x, y, c>>, <<0, 0>>, <<>>, PlainPixelOut(x, y, c))

ColorPixel(x, y, c, ccode, tsize) ==
    /\ TermIdle
    /\ TermCall("drawc_pixel", <<x, y, c, ccode>>, tsize, <<>>,
                ColorPixelOut(x, y, c, ccode, tsize))

TextAligned(x, y, text, align, ccode, tsize) ==
    /\ TermIdle
    /\ TermCall("text_aligned", <<x, y, text, align, ccode>>, tsize,
                TextAlignedCalls(x, y, text, align, ccode),
                ColorCallsOut(TextAlignedCalls(x, y, text, align, ccode), tsize, 1))

PlainStraightLine(x, y, length, dir, c) ==
    /\ TermIdle
    /\ TermCall("plain_straight_line", <<x, y, length, dir, c>>, <<0, 0>>,
                WithChar(PlainStraightLineCells(x, y, length, dir), c),
                PlainCallsOut(WithChar(PlainStraightLineCells(x, y, length, dir), c), 1))

PlainRectangle(x, y, w, h, c, fill) ==
    /\ TermIdle
    /\ TermCall("plain_rectangle", <<x, y, w, h, c, fill>>, <<0, 0>>,
                WithChar(PlainRectangleCells(x, y, w, h, fill), c),
                PlainCallsOut(WithChar(PlainRectangleCells(x, y, w, h, fill), c), 1))

ColorStraightLine(x, y, length, dir, c, ccode, tsize) ==
    /\ TermIdle
    /\ TermCall("color_straight_line", <<x, y, length, dir, c, ccode>>, tsize,
                WithCode(ColorStraightLineCells(x, y, length, dir), c, ccode),
                ColorCallsOut(WithCode(ColorStraightLineCells(x, y, length, dir), c, ccode),
                              tsize, 1))

ColorRectangle(x, y, w, h, c, ccode, fill, tsize) ==
    /\ TermIdle
    /\ TermCall("color_rectangle", <<x, y, w, h, c, ccode, fill>>, tsize,
                WithCode(ColorRectangleCells(x, y, w, h, fill), c, ccode),
                ColorCallsOut(WithCode(ColorRectangleCells(x, y, w, h, fill), c, ccode),
                              tsize, 1))

\* The caller goes on after an immediate-mode call.
TermReturn ==
    /\ term.op # "none"
    /\ term' = NoTerm
    /\ UNCHANGED <<made, width, height, data, last, panicked, ndraw>>

\* The terminal sizes super::size() answers, as <<columns, rows>>.
TermSizes == {<<0, 0>>, <<2, 1>>, <<3, 2>>}
\* The style tokens passed: a color, the empty token, and two that do not
\* start with the escape character.
Codes == {RED, <<>>, <<"r", "e", "d">>, <<"[", ESC>>}
\* The coordinates passed: -1..MaxCoord, and the 10 and 3 of the documented call.
TermCoords == ((0 - 1)..MaxCoord) \cup {10}
TermRows == {0 - 1, 0, 1, 3}
TermTexts == SeqsUpTo({"h", "i", "e-acute"}, 0, MaxText)
Alignments == {"Left", "Center", "Right"}
\* The corners of the rectangles and the starts of the lines drawn.
TermStarts == (0 - 1)..1

\* No surface is used by the immediate-mode front-ends.
TermInit ==
    /\ made = <<0, 0>>
    /\ width = 0
    /\ height = 0
    /\ data = NewData(0, 0)
    /\ last = NoCall
    /\ panicked = FALSE
    /\ ndraw = 0
    /\ term = NoTerm

TermNext ==
    \/ TermIdle /\ \E x \in TermCoords, y \in TermCoords, c \in {"#", "."} :
           PlainPixel(x, y, c)
    \/ TermIdle /\ \E x \in TermCoords, y \in TermCoords, ccode \in Codes,
                      tsize \in TermSizes :
           ColorPixel(x, y, "#", ccode, tsize)
    \/ TermIdle /\ \E x \in TermCoords, y \in TermRows, text \in TermTexts,
                      align \in Alignments, ccode \in {RED, <<>>}, tsize \in TermSizes :
           TextAligned(x, y, text, align, ccode, tsize)
    \/ TermIdle /\ \E x \in TermStarts, y \in TermStarts,
                      length \in (0 - MaxLen)..MaxLen, dir \in Directions :
           PlainStraightLine(x, y, length, dir, "#")
    \/ TermIdle /\ \E x \in TermStarts, y \in TermStarts, w \in 0..MaxRect,
                      h \in 0..MaxRect, fill \in BOOLEAN :
           PlainRectangle(x, y, w, h, "#", fill)
    \/ TermIdle /\ \E x \in TermStarts, y \in TermStarts,
                      length \in (0 - MaxLen)..MaxLen, dir \in Directions,
                      tsize \in TermSizes :
           ColorStraightLine(x, y, length, dir, "#", RED, tsize)
    \/ TermIdle /\ \E x \in TermStarts, y \in TermStarts, w \in 0..MaxRect,
                      h \in 0..MaxRect, fill \in BOOLEAN, tsize \in TermSizes :
           ColorRectangle(x, y, w, h, "#", RED, fill, tsize)
    \/ TermReturn

SpecTerm == TermInit /\ [][TermNext]_vars

----------------------------------------------------------------------------
(* The calls the model makes *)

\* The points of a polygon: the corners of the surface and a point outside it.
Vertices(w, h) == {<<0, 0>>, <<w - 1, 0>>, <<w - 1, h - 1>>, <<0 - 1, h>>}

\* The texts of draw_text.
Texts == SeqsUpTo({"h", "i"}, 0, MaxText)

Surface(w, h, d) == [width |-> w, height |-> h, data |-> d]

\* The surfaces blitted onto a w-by-h surface: one of its size full of '#', one
\* of spaces only, one with transparent and opaque cells, and an empty one.
Others(w, h) ==
    { Surface(w, h, Grid(w, h, "#")),
      Surface(2, 2, NewData(2, 2)),
      Surface(2, 2, <<<<"#", SPACE>>, <<SPACE, ".">>>>),
      Surface(0, 0, NewData(0, 0)) }

\* The state after Surface::new(w, h): the constructor has just returned.
Init ==
    /\ \E s \in Sizes :
           /\ made = s
           /\ width = s[1]
           /\ height = s[2]
           /\ data = NewData(s[1], s[2])
           /\ last = [op |-> "new", args |-> s, before |-> <<>>, ret |-> FALSE,
                      writes |-> <<>>, lines |-> <<>>]
    /\ panicked = FALSE
    /\ ndraw = 0
    /\ term = NoTerm

Next ==
    \/ Idle /\ \E c \in Chars : Fill(c)
    \/ CanDraw /\ \E x \in Xs(width), y \in Ys(height), c \in Chars : DrawPixel(x, y, c)
    \/ CanDraw /\ \E x \in Xs(width), y \in Ys(height), length \in (0 - MaxLen)..MaxLen,
                     dir \in Directions, c \in Inks :
           DrawStraightLine(x, y, length, dir, c)
    \/ CanDraw /\ \E x \in Xs(width), y \in Ys(height), w \in 0..MaxRect, h \in 0..MaxRect,
                     c \in Inks, fill \in BOOLEAN :
           \E checks \in (IF RectangleUnderflows(h, fill) THEN BOOLEAN ELSE {FALSE}) :
               DrawRectangle(x, y, w, h, c, fill, checks)
    \/ CanDraw /\ \E x1 \in Xs(width), y1 \in Ys(height), x2 \in Xs(width),
                     y2 \in Ys(height), c \in Inks :
           DrawLine(x1, y1, x2, y2, c)
    \/ CanDraw /\ \E h \in Xs(width), k \in Ys(height), a \in 0..MaxRad, b \in 0..MaxRad,
                     c \in Inks, fill \in BOOLEAN :
           DrawEllipse(h, k, a, b, c, fill)
    \/ CanDraw /\ \E points \in SeqsUpTo(Vertices(width, height), 0, MaxPts), c \in Inks :
           DrawPolygon(points, c)
    \/ CanDraw /\ \E x \in Xs(width), y \in Ys(height), text \in Texts : DrawText(x, y, text)
    \/ CanDraw /\ \E x \in Xs(width), y \in Ys(height), other \in Others(width, height) :
           Blit(x, y, other)
    \/ Return

Spec == Init /\ [][Next]_vars

----------------------------------------------------------------------------
(* The claims *)

\* The cells of a w-by-h surface, as <<x, y>>.
Cells(w, h) == (0..(w - 1)) \X (0..(h - 1))

\* C1: draw_pixel(x, y, c) with 0 <= x < width and 0 <= y < height returns
\* true, leaves c in cell (x, y) and changes no other cell; with (x, y) outside
\* that range, negative coordinates included, it returns false and the grid is
\* as before.
C1_DrawPixel ==
    last.op = "draw_pixel" =>
        LET x == last.args[1]
            y == last.args[2]
            c == last.args[3]
        IN  IF 0 <= x /\ x < width /\ 0 <= y /\ y < height
            THEN /\ last.ret = TRUE
                 /\ data[y + 1][x + 1] = c
                 /\ \A p \in Cells(width, height) :
                        p # <<x, y>> => data[p[2] + 1][p[1] + 1] = last.before[p[2] + 1][p[1] + 1]
            ELSE /\ last.ret = FALSE
                 /\ data = last.before

\* A pixel was placed on a cell that held another character.
C1_Witness ==
    /\ last.op = "draw_pixel"
    /\ last.ret = TRUE
    /\ last.args[1] = 1 /\ last.args[2] = 2
    /\ data # last.before

\* C2: blit(x, y, other) leaves in each cell (cx, cy) of self the cell
\* (cx - x, cy - y) of other when other has that cell and it is not the space,
\* and the cell's previous value otherwise; so a surface of spaces changes
\* nothing, and a surface of the same size full of '#' blitted at (0, 0) onto a
\* surface full of '.' leaves every cell '#'.
C2_Blit ==
    last.op = "blit" =>
        LET x == last.args[1]
            y == last.args[2]
            other == last.args[3]
            Opaque(cx, cy) ==
                /\ 0 <= cx - x /\ cx - x < other.width
                /\ 0 <= cy - y /\ cy - y < other.height
                /\ other.data[cy - y + 1][cx - x + 1] # SPACE
        IN  /\ \A p \in Cells(width, height) :
                   data[p[2] + 1][p[1] + 1] =
                       IF Opaque(p[1], p[2])
                       THEN other.data[p[2] - y + 1][p[1] - x + 1]
                       ELSE last.before[p[2] + 1][p[1] + 1]
            /\ (\A i \in 1..other.height : \A j \in 1..other.width :
                    other.data[i][j] = SPACE) => data = last.before
            /\ ( /\ x = 0 /\ y = 0
                 /\ other = [width |-> width, height |-> height,
                             data |-> [i \in 1..height |-> [j \in 1..width |-> "#"]]]
                 /\ last.before = [i \in 1..height |-> [j \in 1..width |-> "."]] )
               => data = [i \in 1..height |-> [j \in 1..width |-> "#"]]

\* A surface with a transparent and an opaque cell was blitted onto a surface
\* full of '.': one cell took the '#', the cell under the space kept its '.'.
C2_Witness ==
    /\ last.op = "blit"
    /\ width = 2 /\ height = 3
    /\ last.args[1] = 0 /\ last.args[2] = 0
    /\ last.args[3].data = <<<<"#", SPACE>>, <<SPACE, ".">>>>
    /\ data = <<<<"#", ".">>, <<".", ".">>, <<".", ".">>>>

\* C3: draw_rectangle(x, y, w, h, c, false) with w, h >= 2 and the rectangle
\* inside the surface writes c to exactly the border cells of the rectangle,
\* 2w + 2h - 4 distinct cells, and leaves every other cell as it was.
C3_RectangleBorder ==
    ( /\ last.op = "draw_rectangle"
      /\ ~panicked
      /\ last.args[6] = FALSE
      /\ last.args[3] >= 2 /\ last.args[4] >= 2
      /\ last.args[1] >= 0 /\ last.args[1] + last.args[3] <= width
      /\ last.args[2] >= 0 /\ last.args[2] + last.args[4] <= height ) =>
        LET x == last.args[1]
            y == last.args[2]
            w == last.args[3]
            h == last.args[4]
            c == last.args[5]
            border == {p \in (x..(x + w - 1)) \X (y..(y + h - 1)) :
                          \/ p[1] = x \/ p[1] = x + w - 1
                          \/ p[2] = y \/ p[2] = y + h - 1}
            written == {<<last.writes[i][1], last.writes[i][2]>> : i \in 1..Len(last.writes)}
        IN  /\ written = border
            /\ Cardinality(written) = 2 * w + 2 * h - 4
            /\ \A i \in 1..Len(last.writes) : last.writes[i][3] = c
            /\ \A p \in Cells(width, height) :
                   data[p[2] + 1][p[1] + 1] =
                       IF p \in border THEN c ELSE last.before[p[2] + 1][p[1] + 1]

\* C4: the grid has `height` rows of `width` cells each, width and height are
\* the values Surface::new was called with, and a surface just constructed
\* holds only spaces.
C4_Shape ==
    /\ width = made[1]
    /\ height = made[2]
    /\ Len(data) = made[2]
    /\ DOMAIN data = 1..made[2]
    /\ \A i \in DOMAIN data : DOMAIN data[i] = 1..made[1]
    /\ last.op = "new" =>
           \A i \in 1..made[2] : \A j \in 1..made[1] : data[i][j] = SPACE

\* A drawing call has changed a surface that was filled before it.
C4_Witness ==
    /\ last.op = "draw_ellipse"
    /\ made = <<2, 3>>
    /\ last.before = [i \in 1..3 |-> [j \in 1..2 |-> "."]]
    /\ data # last.before

\* C5: straight_line(x, y, L, dir, c) issues the same pixel writes, and leaves
\* the same grid, as straight_line(x, y, -L, opposite of dir, c); it writes |L|
\* cells starting at (x, y), in the direction for L > 0 and in the opposite
\* direction for L < 0, and nothing for L = 0.
C5_SignFlip ==
    last.op = "draw_straight_line" =>
        LET x == last.args[1]
            y == last.args[2]
            L == last.args[3]
            dir == last.args[4]
            c == last.args[5]
            opp == CASE dir = "Left" -> "Right" [] dir = "Right" -> "Left"
                     [] dir = "Up" -> "Down" [] dir = "Down" -> "Up"
            ux == IF dir = "Right" THEN 1 ELSE IF dir = "Left" THEN 0 - 1 ELSE 0
            uy == IF dir = "Down" THEN 1 ELSE IF dir = "Up" THEN 0 - 1 ELSE 0
            sign == IF L < 0 THEN 0 - 1 ELSE 1
            flipped == WithChar(StraightLineCells(x, y, 0 - L, opp), c)
        IN  /\ last.writes = flipped
            /\ data = Paint(last.before, width, height, flipped)
            /\ Len(last.writes) = (IF L < 0 THEN 0 - L ELSE L)
            /\ \A i \in 1..Len(last.writes) :
                   last.writes[i] = <<x + sign * (i - 1) * ux, y + sign * (i - 1) * uy, c>>
            /\ L = 0 => last.writes = <<>> /\ data = last.before

\* A line of negative length has drawn on the surface.
C5_Witness ==
    /\ last.op = "draw_straight_line"
    /\ last.args[3] = 0 - 2
    /\ last.args[4] = "Right"
    /\ Len(last.writes) = 2
    /\ data # last.before

\* C6: draw_polygon(points, c) with n >= 2 points issues n draw_line calls,
\* points[i] to points[i+1] in order and last points[n-1] to points[0], and
\* afterwards every vertex inside the surface holds c.
C6_Polygon ==
    (last.op = "draw_polygon" /\ Len(last.args[1]) >= 2) =>
        LET points == last.args[1]
            c == last.args[2]
            n == Len(points)
        IN  /\ Len(last.lines) = n
            /\ \A i \in 1..(n - 1) :
                   last.lines[i] = <<points[i][1], points[i][2],
                                     points[i + 1][1], points[i + 1][2]>>
            /\ last.lines[n] = <<points[n][1], points[n][2], points[1][1], points[1][2]>>
            /\ \A i \in 1..n :
                   (/\ 0 <= points[i][1] /\ points[i][1] < width
                    /\ 0 <= points[i][2] /\ points[i][2] < height)
                   => data[points[i][2] + 1][points[i][1] + 1] = c

\* A triangle with two vertices inside the surface and one outside was drawn.
C6_Witness ==
    /\ last.op = "draw_polygon"
    /\ made = <<2, 3>>
    /\ last.args[1] = <<<<0, 0>>, <<1, 2>>, <<0 - 1, 3>>>>
    /\ Len(last.lines) = 3
    /\ data[1][1] = "#" /\ data[3][2] = "#"
    /\ last.before[1][1] # "#"

\* C7: no drawing call on a Surface panics.
C7_NoPanic == ~panicked

\* C8: text_aligned(x, y, text, align, ccode) issues one pixel call for each
\* character of text, the i-th (from 0) at column x - off + i of row y, where
\* off is 0 for Left, len / 2 truncated for Center and len for Right, len being
\* text.len(); text_aligned(10, 3, "hi", Center, _) puts 'h' at column 9 and 'i'
\* at column 10.
C8_TextAligned ==
    term.op = "text_aligned" =>
        LET x == term.args[1]
            y == term.args[2]
            text == term.args[3]
            align == term.args[4]
            ccode == term.args[5]
            len == StrLen(text)
            off == CASE align = "Left" -> 0
                     [] align = "Center" -> len \div 2
                     [] align = "Right" -> len
        IN  /\ Len(term.calls) = Len(text)
            /\ \A i \in 1..Len(text) :
                   term.calls[i] = <<x - off + (i - 1), y, text[i], ccode>>
            /\ (x = 10 /\ y = 3 /\ text = <<"h", "i">> /\ align = "Center") =>
                   term.calls = <<<<9, 3, "h", ccode>>, <<10, 3, "i", ccode>>>>

\* text_aligned(10, 3, "hi", Center, RED) has run.
C8_Witness ==
    /\ term.op = "text_aligned"
    /\ term.args = <<10, 3, <<"h", "i">>, "Center", RED>>
    /\ Len(term.calls) = 2

\* C9: drawc::pixel(x, y, c, ccode) sends a cursor move to (x, y) and then the
\* style token and the character when 0 <= x < columns and 0 <= y < rows of the
\* terminal size asked in the call and ccode starts with the escape character;
\* otherwise it sends nothing.
C9_ColorPixel ==
    term.op = "drawc_pixel" =>
        LET x == term.args[1]
            y == term.args[2]
            c == term.args[3]
            ccode == term.args[4]
            ok == /\ 0 <= x /\ x < term.tsize[1]
                  /\ 0 <= y /\ y < term.tsize[2]
                  /\ ccode # <<>> /\ Head(ccode) = ESC
        IN  term.out =
                IF ok
                THEN <<Cursorto(x, y), [kind |-> "print", text |-> ccode \o <<c>>]>>
                ELSE <<>>

\* A colored pixel was sent to the last cell of a 3-by-2 terminal.
C9_Witness ==
    /\ term.op = "drawc_pixel"
    /\ term.tsize = <<3, 2>>
    /\ term.args[1] = 2 /\ term.args[2] = 1
    /\ Len(term.out) = 2

\* C10 as stated: draw::pixel(x, y, c) sends a cursor move to (x, y) and then c
\* for every coordinate.
C10_AlwaysWrites ==
    term.op = "draw_pixel" =>
        term.out = <<Cursorto(term.args[1], term.args[2]),
                     [kind |-> "print", text |-> <<term.args[3]>>]>>

\* C10 amended: draw::pixel(x, y, c) sends a cursor move to (x, y) and then c
\* for every coordinate with x >= 0 and y >= 0, however large, and sends
\* nothing when x or y is negative.
C10_PlainPixel ==
    term.op = "draw_pixel" =>
        term.out =
            IF term.args[1] >= 0 /\ term.args[2] >= 0
            THEN <<Cursorto(term.args[1], term.args[2]),
                   [kind |-> "print", text |-> <<term.args[3]>>]>>
            ELSE <<>>

\* A plain pixel was sent to a cell beyond every terminal size of the model.
C10_Witness ==
    /\ term.op = "draw_pixel"
    /\ term.args[1] = MaxCoord /\ term.args[2] = MaxCoord
    /\ Len(term.out) = 2

\* C11: for x1 = x2 or y1 = y2, with either sign of the delta and for the
\* duplicate point, draw_line(x1, y1, x2, y2, c) passes to draw_pixel exactly
\* the |delta| + 1 cells of the segment from (x1, y1) to (x2, y2) inclusive,
\* every one with c; afterwards the segment's cells inside the surface hold c
\* and every other cell is as before; the special case, the general path and
\* the endpoint write together cover the same cells as the general path with
\* the endpoint write.
C11_AxisAligned ==
    (last.op = "draw_line"
        /\ (last.args[1] = last.args[3] \/ last.args[2] = last.args[4])) =>
        LET x1 == last.args[1]
            y1 == last.args[2]
            x2 == last.args[3]
            y2 == last.args[4]
            c == last.args[5]
            lox == IF x1 < x2 THEN x1 ELSE x2
            hix == IF x1 < x2 THEN x2 ELSE x1
            loy == IF y1 < y2 THEN y1 ELSE y2
            hiy == IF y1 < y2 THEN y2 ELSE y1
            segment == (lox..hix) \X (loy..hiy)
            delta == (hix - lox) + (hiy - loy)
            written == {<<last.writes[i][1], last.writes[i][2]>> :
                            i \in 1..Len(last.writes)}
            general == GeneralLineCells(x1, y1, x2, y2) \o <<<<x2, y2>>>>
        IN  /\ written = segment
            /\ Cardinality(written) = delta + 1
            /\ \A i \in 1..Len(last.writes) : last.writes[i][3] = c
            /\ \A p \in Cells(width, height) :
                   data[p[2] + 1][p[1] + 1] =
                       IF p \in segment THEN c ELSE last.before[p[2] + 1][p[1] + 1]
            /\ written = {general[i] : i \in 1..Len(general)}
            /\ Len(last.writes) = 2 * delta + 1

\* A vertical line drawn upwards, from below the surface to above it, has
\* changed the surface.
C11_Witness ==
    /\ last.op = "draw_line"
    /\ made = <<2, 3>>
    /\ last.args[1] = 1 /\ last.args[3] = 1
    /\ last.args[2] = 3 /\ last.args[4] = 0 - 1
    /\ Len(last.writes) = 9
    /\ data # last.before

\* C12: for identical parameters the immediate-mode front-ends pass to pixel
\* the same set of coordinates as the buffered one passes to draw_pixel:
\* draw::rectangle and drawc::rectangle the set of Surface::draw_rectangle for
\* every x, y, w >= 2, h >= 2 and either fill flag, draw::straight_line and
\* drawc::straight_line the set of Surface::draw_straight_line for every
\* direction and signed length.
C12_SameCoordinates ==
    LET passed == {<<term.calls[i][1], term.calls[i][2]>> : i \in 1..Len(term.calls)}
        SetOf(cells) == {cells[i] : i \in 1..Len(cells)}
    IN  /\ (term.op \in {"plain_rectangle", "color_rectangle"}
               /\ term.args[3] >= 2 /\ term.args[4] >= 2) =>
               passed = SetOf(RectangleCells(term.args[1], term.args[2], term.args[3],
                                             term.args[4],
                                             IF term.op = "plain_rectangle"
                                             THEN term.args[6] ELSE term.args[7]))
        /\ term.op \in {"plain_straight_line", "color_straight_line"} =>
               passed = SetOf(StraightLineCells(term.args[1], term.args[2],
                                                term.args[3], term.args[4]))

====
